---- MODULE Spec2Model ----
(***************************************************************************)
(* Booking service of shelf.nu (app/modules/booking/service.server.ts):    *)
(* upsertBooking, getBookings, removeAssets, deleteBooking, getBooking,    *)
(* run against the booking store they call through `db`.                   *)
(*                                                                         *)
(* Encoding of JavaScript values.  Strings that can be absent are TLA+     *)
(* strings with the markers Undefined and Null; the empty string is a      *)
(* value of its own (falsy, like the two markers).  Dates and booking ids  *)
(* are naturals, 0 standing for an absent one.  Text that is searched (a   *)
(* booking's name, the search string) is a sequence of one-character       *)
(* strings.  An optional number is <<>> (omitted) or <<n>>.  An array of   *)
(* ids is the set of its elements: connect, disconnect, `in` and `notIn`   *)
(* read it as a set, and only its emptiness is tested otherwise.           *)
(***************************************************************************)
EXTENDS Integers, Sequences, FiniteSets, TLC

VARIABLES bookings, clock, response

vars == <<bookings, clock, response>>

-----------------------------------------------------------------------------
(* Bounds of the model *)

MaxBookings == 2
MaxDate == 3
MaxPage == 2

-----------------------------------------------------------------------------
(* JavaScript values *)

Undefined == "undefined"
Null == "null"
NoDate == 0
NoId == 0

\* if (x) on a string or null or undefined
Truthy(x) == x \notin {Undefined, Null, ""}

\* a parameter's default applies when the argument is omitted
Default(opt, d) == IF opt = <<>> THEN d ELSE opt[1]

Min(a, b) == IF a <= b THEN a ELSE b

-----------------------------------------------------------------------------
(* The rows the store's other tables hold, and Booking's columns *)

Organizations == {"o1", "o2"}
Users == {"u1", "u2"}
TeamMembers == {"t1"}
Assets == {"a1", "a2", "a3"}

BookingStatus ==
  {"DRAFT", "RESERVED", "ONGOING", "OVERDUE", "COMPLETE", "ARCHIVED", "CANCELLED"}

Scalars == {"name", "from", "to", "status"}

\* an input that supplies no scalar field
NoScalars == [k \in {} |-> Undefined]

-----------------------------------------------------------------------------
(* Relation directives of an update or create input *)

None == [op |-> "none", id |-> Undefined]
Connect(id) == [op |-> "connect", id |-> id]
Disconnect == [op |-> "disconnect", id |-> Undefined]

NoAssets == [op |-> "none", ids |-> {}]
ConnectAssets(ids) == [op |-> "connect", ids |-> ids]
DisconnectAssets(ids) == [op |-> "disconnect", ids |-> ids]
SetAssets(ids) == [op |-> "set", ids |-> ids]

-----------------------------------------------------------------------------
(* The store: db.booking.update / create / delete / findFirst *)

Outcome(err, store) == [error |-> err, store |-> store]

\* the scalar fields an input supplies overwrite the row's, the others stay
MergeScalars(row, rest) ==
  [k \in DOMAIN row |-> IF k \in DOMAIN rest THEN rest[k] ELSE row[k]]

ApplyOne(cur, dir) ==
  CASE dir.op = "connect" -> dir.id
    [] dir.op = "disconnect" -> Null
    [] OTHER -> cur

ApplyAssets(cur, dir) ==
  CASE dir.op = "connect" -> cur \cup dir.ids
    [] dir.op = "disconnect" -> cur \ dir.ids
    [] dir.op = "set" -> dir.ids
    [] OTHER -> cur

\* every record a connect names exists
Resolvable(data) ==
  /\ data.assets.op \in {"connect", "set"} => data.assets.ids \subseteq Assets
  /\ data.custodianUser.op = "connect" => data.custodianUser.id \in Users
  /\ data.custodianTeamMember.op = "connect" =>
       data.custodianTeamMember.id \in TeamMembers
  /\ data.creator.op = "connect" => data.creator.id \in Users
  /\ data.organization.op = "connect" => data.organization.id \in Organizations

ApplyData(row, data) ==
  [MergeScalars(row, data.rest) EXCEPT
     !.assets = ApplyAssets(@, data.assets),
     !.custodianUserId = ApplyOne(@, data.custodianUser),
     !.custodianTeamMemberId = ApplyOne(@, data.custodianTeamMember),
     !.creatorId = ApplyOne(@, data.creator),
     !.organizationId = ApplyOne(@, data.organization)]

dbUpdate(store, id, data) ==
  IF id \notin DOMAIN store \/ ~Resolvable(data)
  THEN Outcome("NotFound", store)
  ELSE Outcome("none", [store EXCEPT ![id] = ApplyData(@, data)])

EmptyRow(now) ==
  [name |-> <<>>, from |-> NoDate, to |-> NoDate, status |-> "DRAFT",
   organizationId |-> Null, creatorId |-> Null,
   custodianUserId |-> Null, custodianTeamMemberId |-> Null,
   assets |-> {}, createdAt |-> now]

Insert(store, id, row) ==
  [i \in DOMAIN store \cup {id} |-> IF i = id THEN row ELSE store[i]]

\* A create input has no disconnect: the service can hand one over (its cast
\* of the update input), and whether the store then refuses the input or
\* ignores the directive is the store's choice, so both outcomes are kept.
dbCreate(store, id, data) ==
  LET created == Outcome("none", Insert(store, id, ApplyData(EmptyRow(id), data)))
      hasDisconnect == \/ data.custodianUser.op = "disconnect"
                       \/ data.custodianTeamMember.op = "disconnect"
  IN  IF \/ data.creator.op # "connect"
         \/ data.organization.op # "connect"
      THEN {Outcome("Invalid", store)}
      ELSE IF ~Resolvable(data)
      THEN {Outcome("NotFound", store)}
      ELSE IF hasDisconnect
      THEN {Outcome("Invalid", store), created}
      ELSE {created}

dbDelete(store, id) ==
  IF id \notin DOMAIN store
  THEN Outcome("NotFound", store)
  ELSE Outcome("none", [i \in DOMAIN store \ {id} |-> store[i]])

\* findFirst({where: {id}}): the rows found, none or one
dbFindFirst(store, id) ==
  IF id \in DOMAIN store THEN {store[id]} ELSE {}

-----------------------------------------------------------------------------
(* upsertBooking *)

\* slip: the other custodian is not disconnected
UpsertData_KeepsOther(b) ==
  [rest |-> b.rest,
   assets |-> IF Cardinality(b.assetIds) > 0
              THEN ConnectAssets(b.assetIds) ELSE NoAssets,
   custodianUser |->
     IF Truthy(b.custodianUserId) THEN Connect(b.custodianUserId) ELSE None,
   custodianTeamMember |->
     IF ~Truthy(b.custodianUserId) /\ Truthy(b.custodianTeamMemberId)
     THEN Connect(b.custodianTeamMemberId) ELSE None,
   creator |-> None,
   organization |-> None]

\* slip: creator and organization are connected before the branch on id
UpsertData_LinksOwner(b) ==
  [rest |-> b.rest,
   assets |-> IF Cardinality(b.assetIds) > 0
              THEN ConnectAssets(b.assetIds) ELSE NoAssets,
   custodianUser |->
     IF Truthy(b.custodianUserId) THEN Connect(b.custodianUserId)
     ELSE IF Truthy(b.custodianTeamMemberId) THEN Disconnect
     ELSE None,
   custodianTeamMember |->
     IF Truthy(b.custodianUserId) THEN Disconnect
     ELSE IF Truthy(b.custodianTeamMemberId) THEN Connect(b.custodianTeamMemberId)
     ELSE None,
   creator |-> IF Truthy(b.creatorId) THEN Connect(b.creatorId) ELSE None,
   organization |->
     IF Truthy(b.organizationId) THEN Connect(b.organizationId) ELSE None]

\* slip: the asset list is written with `set` instead of `connect`
UpsertData_SetsAssets(b) ==
  [rest |-> b.rest,
   assets |-> IF Cardinality(b.assetIds) > 0
              THEN SetAssets(b.assetIds) ELSE NoAssets,
   custodianUser |->
     IF Truthy(b.custodianUserId) THEN Connect(b.custodianUserId)
     ELSE IF Truthy(b.custodianTeamMemberId) THEN Disconnect
     ELSE None,
   custodianTeamMember |->
     IF Truthy(b.custodianUserId) THEN Disconnect
     ELSE IF Truthy(b.custodianTeamMemberId) THEN Connect(b.custodianTeamMemberId)
     ELSE None,
   creator |-> None,
   organization |-> None]

\* the update input built from the payload, before the branch on id
UpsertData(b) ==
  [rest |-> b.rest,
   assets |-> IF Cardinality(b.assetIds) > 0
              THEN ConnectAssets(b.assetIds) ELSE NoAssets,
   custodianUser |->
     IF Truthy(b.custodianUserId) THEN Connect(b.custodianUserId)
     ELSE IF Truthy(b.custodianTeamMemberId) THEN Disconnect
     ELSE None,
   custodianTeamMember |->
     IF Truthy(b.custodianUserId) THEN Disconnect
     ELSE IF Truthy(b.custodianTeamMemberId) THEN Connect(b.custodianTeamMemberId)
     ELSE None,
   creator |-> None,
   organization |-> None]

\* only on the create path: connect creator and organization when supplied
CreateData(b, data) ==
  [data EXCEPT
     !.creator = IF Truthy(b.creatorId) THEN Connect(b.creatorId) ELSE @,
     !.organization =
        IF Truthy(b.organizationId) THEN Connect(b.organizationId) ELSE @]

Idle == [op |-> "idle"]

upsertBooking(b) ==
  /\ response = Idle
  /\ LET data == UpsertData(b) IN
     IF b.id # NoId
     THEN LET r == dbUpdate(bookings, b.id, data) IN
          /\ bookings' = r.store
          /\ clock' = clock
          /\ response' = [op |-> "upsertBooking", args |-> b,
                          calls |-> <<"update">>, error |-> r.error,
                          id |-> b.id, before |-> bookings]
     ELSE /\ clock <= MaxBookings
          /\ \E r \in dbCreate(bookings, clock, CreateData(b, data)) :
               /\ bookings' = r.store
               /\ clock' = IF r.error = "none" THEN clock + 1 ELSE clock
               /\ response' = [op |-> "upsertBooking", args |-> b,
                               calls |-> <<"create">>, error |-> r.error,
                               id |-> clock, before |-> bookings]

-----------------------------------------------------------------------------
(* removeAssets, deleteBooking, getBooking *)

\* slip: every asset is disconnected, not only the listed ones
removeAssetsData_All(assetIds) ==
  [rest |-> NoScalars, assets |-> SetAssets({}),
   custodianUser |-> None, custodianTeamMember |-> None,
   creator |-> None, organization |-> None]

removeAssetsData(assetIds) ==
  [rest |-> NoScalars, assets |-> DisconnectAssets(assetIds),
   custodianUser |-> None, custodianTeamMember |-> None,
   creator |-> None, organization |-> None]

removeAssets(id, assetIds) ==
  /\ response = Idle
  /\ LET r == dbUpdate(bookings, id, removeAssetsData(assetIds)) IN
     /\ bookings' = r.store
     /\ response' = [op |-> "removeAssets", id |-> id, assetIds |-> assetIds,
                     calls |-> <<"update">>, error |-> r.error,
                     before |-> bookings]
  /\ UNCHANGED clock

\* slip: the booking is read, not deleted
deleteBooking_ReadsOnly(id) ==
  /\ response = Idle
  /\ response' = [op |-> "deleteBooking", id |-> id,
                  calls |-> <<"findFirst">>,
                  error |-> IF id \in DOMAIN bookings THEN "none" ELSE "NotFound",
                  result |-> dbFindFirst(bookings, id),
                  before |-> bookings]
  /\ UNCHANGED <<bookings, clock>>

deleteBooking(id) ==
  /\ response = Idle
  /\ LET r == dbDelete(bookings, id) IN
     /\ bookings' = r.store
     /\ response' = [op |-> "deleteBooking", id |-> id,
                     calls |-> <<"delete">>, error |-> r.error,
                     result |-> dbFindFirst(bookings, id),
                     before |-> bookings]
  /\ UNCHANGED clock

getBooking(id) ==
  /\ response = Idle
  /\ response' = [op |-> "getBooking", id |-> id,
                  calls |-> <<"findFirst">>, error |-> "none",
                  result |-> dbFindFirst(bookings, id)]
  /\ UNCHANGED <<bookings, clock>>

\* the awaiting caller takes the value the service returned
Return ==
  /\ response # Idle
  /\ response' = Idle
  /\ UNCHANGED <<bookings, clock>>

-----------------------------------------------------------------------------
(* Text: trim(), and contains with mode "insensitive" *)

ToLower(c) == IF c = "A" THEN "a" ELSE IF c = "B" THEN "b" ELSE c

Lower(s) == [i \in 1..Len(s) |-> ToLower(s[i])]

RECURSIVE TrimStart(_)
TrimStart(s) == IF s # <<>> /\ Head(s) = " " THEN TrimStart(Tail(s)) ELSE s

RECURSIVE TrimEnd(_)
TrimEnd(s) ==
  IF s # <<>> /\ s[Len(s)] = " " THEN TrimEnd(SubSeq(s, 1, Len(s) - 1)) ELSE s

Trim(s) == TrimEnd(TrimStart(s))

Contains(s, sub) ==
  \E i \in 0..(Len(s) - Len(sub)) : SubSeq(s, i + 1, i + Len(sub)) = sub

ContainsInsensitive(s, sub) == Contains(Lower(s), Lower(sub))

-----------------------------------------------------------------------------
(* getBookings *)

DefaultPage == 1
DefaultPerPage == 8

Skip(page, perPage) == IF page > 1 THEN (page - 1) * perPage ELSE 0

\* slip: the cap the comment names, 25, instead of 100
Take_Max25(perPage) == IF perPage >= 1 /\ perPage <= 25 THEN perPage ELSE 20

Take(perPage) == IF perPage >= 1 /\ perPage <= 100 THEN perPage ELSE 20

Lte(v) == [op |-> "lte", v |-> v]
Gte(v) == [op |-> "gte", v |-> v]

\* the two clauses of where.OR
OverlapClauses(bookingFrom, bookingTo) ==
  << [from |-> Lte(bookingTo), to |-> Gte(bookingFrom)],
     [from |-> Gte(bookingFrom), to |-> Lte(bookingTo)] >>

\* slip: only the containment clause is kept
GetBookingsWhere_ContainedOnly(a) ==
  [organizationId |-> <<a.organizationId>>,
   name |-> IF Len(Trim(a.search)) > 0 THEN <<Trim(a.search)>> ELSE <<>>,
   custodianTeamMemberId |->
     IF Truthy(a.custodianTeamMemberId) THEN <<a.custodianTeamMemberId>> ELSE <<>>,
   custodianUserId |->
     IF Truthy(a.custodianUserId) THEN <<a.custodianUserId>> ELSE <<>>,
   status |-> IF Cardinality(a.statuses) > 0 THEN <<a.statuses>> ELSE <<>>,
   assets |-> IF Cardinality(a.assetIds) > 0 THEN <<a.assetIds>> ELSE <<>>,
   idNotIn |-> IF Cardinality(a.excludeBookingIds) > 0
               THEN <<a.excludeBookingIds>> ELSE <<>>,
   OR |-> IF a.bookingFrom # NoDate /\ a.bookingTo # NoDate
          THEN <<Tail(OverlapClauses(a.bookingFrom, a.bookingTo))>> ELSE <<>>]

\* slip: the date clauses replace the where object instead of joining it
GetBookingsWhere_DatesReplace(a) ==
  IF a.bookingFrom # NoDate /\ a.bookingTo # NoDate
  THEN [organizationId |-> <<>>, name |-> <<>>, custodianTeamMemberId |-> <<>>,
        custodianUserId |-> <<>>, status |-> <<>>, assets |-> <<>>,
        idNotIn |-> <<>>,
        OR |-> <<OverlapClauses(a.bookingFrom, a.bookingTo)>>]
  ELSE [organizationId |-> <<a.organizationId>>,
        name |-> IF Len(Trim(a.search)) > 0 THEN <<Trim(a.search)>> ELSE <<>>,
        custodianTeamMemberId |->
          IF Truthy(a.custodianTeamMemberId)
          THEN <<a.custodianTeamMemberId>> ELSE <<>>,
        custodianUserId |->
          IF Truthy(a.custodianUserId) THEN <<a.custodianUserId>> ELSE <<>>,
        status |-> IF Cardinality(a.statuses) > 0 THEN <<a.statuses>> ELSE <<>>,
        assets |-> IF Cardinality(a.assetIds) > 0 THEN <<a.assetIds>> ELSE <<>>,
        idNotIn |-> IF Cardinality(a.excludeBookingIds) > 0
                    THEN <<a.excludeBookingIds>> ELSE <<>>,
        OR |-> <<>>]

\* the where object: each key is <<>> when not set, <<condition>> when set
GetBookingsWhere(a) ==
  [organizationId |-> <<a.organizationId>>,
   name |-> IF Len(Trim(a.search)) > 0 THEN <<Trim(a.search)>> ELSE <<>>,
   custodianTeamMemberId |->
     IF Truthy(a.custodianTeamMemberId) THEN <<a.custodianTeamMemberId>> ELSE <<>>,
   custodianUserId |->
     IF Truthy(a.custodianUserId) THEN <<a.custodianUserId>> ELSE <<>>,
   status |-> IF Cardinality(a.statuses) > 0 THEN <<a.statuses>> ELSE <<>>,
   assets |-> IF Cardinality(a.assetIds) > 0 THEN <<a.assetIds>> ELSE <<>>,
   idNotIn |-> IF Cardinality(a.excludeBookingIds) > 0
               THEN <<a.excludeBookingIds>> ELSE <<>>,
   OR |-> IF a.bookingFrom # NoDate /\ a.bookingTo # NoDate
          THEN <<OverlapClauses(a.bookingFrom, a.bookingTo)>> ELSE <<>>]

(* The store's reading of a where object: the keys that are set hold together, *)
(* and OR holds when one of its clauses does.                                  *)

DateCond(d, c) ==
  /\ d # NoDate
  /\ IF c.op = "lte" THEN d <= c.v ELSE d >= c.v

ClauseMatches(clause, row) ==
  DateCond(row.from, clause.from) /\ DateCond(row.to, clause.to)

OrMatches(clauses, row) ==
  \E i \in 1..Len(clauses) : ClauseMatches(clauses[i], row)

WhereMatches(where, id, row) ==
  /\ where.organizationId # <<>> => row.organizationId = where.organizationId[1]
  /\ where.name # <<>> => ContainsInsensitive(row.name, where.name[1])
  /\ where.custodianTeamMemberId # <<>> =>
       row.custodianTeamMemberId = where.custodianTeamMemberId[1]
  /\ where.custodianUserId # <<>> =>
       row.custodianUserId = where.custodianUserId[1]
  /\ where.status # <<>> => row.status \in where.status[1]
  /\ where.assets # <<>> => row.assets \cap where.assets[1] # {}
  /\ where.idNotIn # <<>> => id \notin where.idNotIn[1]
  /\ where.OR # <<>> => OrMatches(where.OR[1], row)

Matching(store, where) ==
  {id \in DOMAIN store : WhereMatches(where, id, store[id])}

\* orderBy: { createdAt: "desc" }
RECURSIVE NewestFirst(_, _)
NewestFirst(store, ids) ==
  IF ids = {} THEN <<>>
  ELSE LET top == CHOOSE i \in ids :
                    \A j \in ids : store[j].createdAt <= store[i].createdAt
       IN  <<top>> \o NewestFirst(store, ids \ {top})

dbFindMany(store, where, skip, take) ==
  LET all == NewestFirst(store, Matching(store, where))
  IN  SubSeq(all, skip + 1, Min(Len(all), skip + take))

dbCount(store, where) == Cardinality(Matching(store, where))

getBookings(a) ==
  /\ response = Idle
  /\ LET page == Default(a.page, DefaultPage)
         perPage == Default(a.perPage, DefaultPerPage)
         skip == Skip(page, perPage)
         take == Take(perPage)
         where == GetBookingsWhere(a)
     IN  response' = [op |-> "getBookings", args |-> a,
                      page |-> page, perPage |-> perPage,
                      skip |-> skip, take |-> take, where |-> where,
                      calls |-> <<"findMany", "count">>, error |-> "none",
                      bookings |-> dbFindMany(bookings, where, skip, take),
                      bookingCount |-> dbCount(bookings, where)]
  /\ UNCHANGED <<bookings, clock>>

-----------------------------------------------------------------------------
(* Payloads of upsertBooking *)

FullRest == [name |-> <<"a">>, from |-> 1, to |-> 2, status |-> "DRAFT"]
StatusOnly == [status |-> "ONGOING"]

Payload(id, rest, org, creator, cu, ctm, assetIds) ==
  [id |-> id, rest |-> rest, organizationId |-> org, creatorId |-> creator,
   custodianUserId |-> cu, custodianTeamMemberId |-> ctm, assetIds |-> assetIds]

\* <<organizationId, creatorId>> of a payload
OwnerInputs ==
  {<<Undefined, Undefined>>, <<"o1", "u1">>, <<"o2", "u2">>,
   <<"o1", Undefined>>, <<Undefined, "u1">>}

\* a create supplies every scalar column; an update any part of them
RestInputs(id) == IF id = NoId THEN {FullRest} ELSE {FullRest, StatusOnly}

\* NoId (a create) or an id the store has handed out or may hand out
IdInputs == 0..MaxBookings

AssetIdInputs == SUBSET (Assets \cup {"a9"})

UpsertInputs ==
  {Payload(x[1], x[2], o[1], o[2], cu, ctm, {}) :
     x \in {y \in IdInputs \X {FullRest, StatusOnly} : y[2] \in RestInputs(y[1])},
     o \in OwnerInputs, cu \in {Undefined, Null, "u1"}, ctm \in {Undefined, "t1"}}

AssetUpsertInputs ==
  {Payload(id, IF id = NoId THEN FullRest ELSE NoScalars, "o1", "u1",
           Undefined, Undefined, ids) :
     id \in IdInputs, ids \in AssetIdInputs}

-----------------------------------------------------------------------------
(* Specification of the upsert path: custodians, creator, organization *)

Init ==
  /\ bookings = [i \in {} |-> EmptyRow(0)]
  /\ clock = 1
  /\ response = Idle

Next ==
  \/ response = Idle /\ \E b \in UpsertInputs : upsertBooking(b)
  \/ Return

Spec == Init /\ [][Next]_vars

-----------------------------------------------------------------------------
(* Specification of the asset path: connect, removeAssets, delete, get *)

NextAssets ==
  \/ response = Idle /\ \E b \in AssetUpsertInputs : upsertBooking(b)
  \/ response = Idle /\ \E id \in IdInputs \ {NoId}, ids \in AssetIdInputs :
                          removeAssets(id, ids)
  \/ response = Idle /\ \E id \in IdInputs \ {NoId} : deleteBooking(id)
  \/ response = Idle /\ \E id \in IdInputs \ {NoId} : getBooking(id)
  \/ Return

SpecAssets == Init /\ [][NextAssets]_vars

-----------------------------------------------------------------------------
(* Specification of the listing: getBookings over stores of one or two     *)
(* bookings that differ from a base booking in one column or in the dates  *)

Row(name, from, to, status, org, cu, ctm, assets) ==
  [name |-> name, from |-> from, to |-> to, status |-> status,
   organizationId |-> org, creatorId |-> "u1",
   custodianUserId |-> cu, custodianTeamMemberId |-> ctm,
   assets |-> assets, createdAt |-> 0]

BaseRow == Row(<<"b", "A">>, 1, 2, "DRAFT", "o1", Null, Null, {})
RichRow == Row(<<"A">>, 1, MaxDate, "RESERVED", "o1", "u1", Null, {"a1", "a2"})

\* the store does not require from <= to, so every pair of dates occurs
ListRows ==
  {Row(<<"b", "A">>, f, t, "DRAFT", "o1", Null, Null, {}) :
     f \in 1..MaxDate, t \in 1..MaxDate}
  \cup {Row(<<"b", "A">>, 1, 2, "DRAFT", "o2", Null, Null, {}),
        Row(<<"b">>, 1, 2, "DRAFT", "o1", Null, Null, {}),
        Row(<<"b", "A">>, 1, 2, "ONGOING", "o1", Null, Null, {}),
        Row(<<"b", "A">>, 1, 2, "DRAFT", "o1", "u1", Null, {}),
        Row(<<"b", "A">>, 1, 2, "DRAFT", "o1", Null, "t1", {}),
        Row(<<"b", "A">>, 1, 2, "DRAFT", "o1", Null, Null, {"a1"}),
        Row(<<"b", "A">>, 1, 2, "DRAFT", "o1", Null, Null, {"a2"}),
        RichRow}

At(row, now) == [row EXCEPT !.createdAt = now]

ListStores ==
  {[i \in {} |-> EmptyRow(0)]}
  \cup {[i \in {1} |-> At(r, 1)] : r \in ListRows}
  \cup {[i \in {1, 2} |-> IF i = 1 THEN At(x[1], 1) ELSE At(x[2], 2)] :
          x \in ListRows \X {BaseRow, RichRow}}

Windows ==
  {<<NoDate, NoDate>>, <<1, NoDate>>, <<NoDate, 1>>}
  \cup ((1..MaxDate) \X (1..MaxDate))

ListArgs(org, page, perPage, search, statuses, cu, ctm, assetIds, exclude, w) ==
  [organizationId |-> org, page |-> page, perPage |-> perPage,
   search |-> search, statuses |-> statuses,
   custodianUserId |-> cu, custodianTeamMemberId |-> ctm,
   assetIds |-> assetIds, excludeBookingIds |-> exclude,
   bookingFrom |-> w[1], bookingTo |-> w[2]]

PageInputs == {<<>>} \cup {<<p>> : p \in 1..MaxPage}
PerPageInputs == {<<>>, <<0>>, <<1>>, <<50>>, <<100>>, <<101>>, <<250>>}
SearchInputs == {<<>>, <<" ">>, <<" ", "A">>}

\* every combination of the filters, on every page of 8, of 1 and of 250 asked
FilterInputs ==
  {ListArgs(org, pg[1], pg[2], search, statuses, cu, ctm, assetIds, exclude, w) :
     org \in Organizations, pg \in PageInputs \X {<<>>, <<1>>, <<250>>},
     search \in SearchInputs, statuses \in {{}, {"DRAFT", "RESERVED"}},
     cu \in {Null, "u1"}, ctm \in {Null, "t1"},
     assetIds \in {{}, {"a1"}}, exclude \in {{}, {1}}, w \in Windows}

\* every page and page size, with the organization as the only filter
PagingInputs ==
  {ListArgs(org, page, perPage, <<>>, {}, Null, Null, {}, {}, <<NoDate, NoDate>>) :
     org \in Organizations, page \in PageInputs, perPage \in PerPageInputs}

InitList ==
  /\ bookings \in ListStores
  /\ clock = Cardinality(DOMAIN bookings) + 1
  /\ response = Idle

NextList ==
  \/ response = Idle /\ \E a \in FilterInputs \cup PagingInputs : getBookings(a)
  \/ Return

SpecList == InitList /\ [][NextList]_vars

-----------------------------------------------------------------------------
(* Claims *)

Upserted == response.op = "upsertBooking" /\ response.error = "none"
Updated == Upserted /\ response.args.id # NoId
Created == Upserted /\ response.args.id = NoId

OthersUnchanged(id) ==
  /\ DOMAIN bookings \ {id} = DOMAIN response.before \ {id}
  /\ \A j \in DOMAIN bookings \ {id} : bookings[j] = response.before[j]

\* C1: every stored booking has at most one of custodianUserId and
\* custodianTeamMemberId non-null; an upsert that supplies a user custodian
\* leaves that user and no team member, and one that supplies only a team
\* member leaves that team member and no user.
C1_CustodianExclusive ==
  /\ \A id \in DOMAIN bookings :
       bookings[id].custodianUserId = Null \/ bookings[id].custodianTeamMemberId = Null
  /\ Upserted /\ Truthy(response.args.custodianUserId) =>
       /\ bookings[response.id].custodianUserId = response.args.custodianUserId
       /\ bookings[response.id].custodianTeamMemberId = Null
  /\ Upserted /\ ~Truthy(response.args.custodianUserId)
              /\ Truthy(response.args.custodianTeamMemberId) =>
       /\ bookings[response.id].custodianTeamMemberId =
            response.args.custodianTeamMemberId
       /\ bookings[response.id].custodianUserId = Null

\* an update moved a booking from a team-member custodian to a user custodian
C1_Witness ==
  /\ Updated
  /\ response.before[response.id].custodianTeamMemberId = "t1"
  /\ response.args.custodianUserId = "u1"
  /\ response.args.custodianTeamMemberId = "t1"

\* C2: a create stores exactly the supplied creatorId and organizationId; an
\* update leaves the booking's creatorId and organizationId as they were,
\* whatever the payload supplies for them.
C2_OwnerSetOnlyAtCreate ==
  /\ Created =>
       /\ response.id \notin DOMAIN response.before
       /\ bookings[response.id].creatorId = response.args.creatorId
       /\ bookings[response.id].organizationId = response.args.organizationId
  /\ Updated =>
       /\ bookings[response.id].creatorId = response.before[response.id].creatorId
       /\ bookings[response.id].organizationId =
            response.before[response.id].organizationId

\* an update whose payload names another creator and another organization
C2_Witness ==
  /\ Updated
  /\ Truthy(response.args.creatorId) /\ Truthy(response.args.organizationId)
  /\ response.args.creatorId # response.before[response.id].creatorId
  /\ response.args.organizationId # response.before[response.id].organizationId

\* C3 as claimed: after an update with a non-empty assetIds list the booking's
\* asset set is exactly the supplied list.
C3_AssetsReplaced ==
  Updated /\ response.args.assetIds # {} =>
    bookings[response.id].assets = response.args.assetIds

\* C3 as amended: after an update with a non-empty assetIds list the booking's
\* asset set is its previous asset set together with the supplied ids; the
\* assets connected before stay connected.
C3_AssetsAdded ==
  Updated /\ response.args.assetIds # {} =>
    bookings[response.id].assets =
      response.before[response.id].assets \cup response.args.assetIds

\* an update that names some assets while others were already connected
C3_Witness ==
  /\ Updated /\ response.args.assetIds # {}
  /\ response.before[response.id].assets \ response.args.assetIds # {}

\* C5: removeAssets(id, S) leaves booking id with its previous assets minus S,
\* raises nothing for members of S that were not connected, leaves every other
\* booking as it was, and a second removeAssets(id, S) changes nothing more.
C5_RemoveAssets ==
  response.op = "removeAssets" /\ response.id \in DOMAIN response.before =>
    /\ response.error = "none"
    /\ DOMAIN bookings = DOMAIN response.before
    /\ bookings[response.id].assets =
         response.before[response.id].assets \ response.assetIds
    /\ OthersUnchanged(response.id)
    /\ dbUpdate(bookings, response.id, removeAssetsData(response.assetIds))
         = Outcome("none", bookings)

\* a booking with assets {a1, a2, a3} after removeAssets of {a2, a9}, a9 not
\* connected: it holds {a1, a3}, and another booking still holds a2
C5_Witness ==
  /\ response.op = "removeAssets" /\ response.error = "none"
  /\ response.before[response.id].assets = {"a1", "a2", "a3"}
  /\ response.assetIds = {"a2", "a9"}
  /\ bookings[response.id].assets = {"a1", "a3"}
  /\ \E j \in DOMAIN bookings \ {response.id} : "a2" \in bookings[j].assets

\* C6 as claimed: a create without creatorId or without organizationId is
\* rejected with a validation error before any store operation is issued, and
\* the stored bookings are unchanged.
C6_RejectedBeforeStore ==
  /\ response.op = "upsertBooking" /\ response.args.id = NoId
  /\ ~Truthy(response.args.creatorId) \/ ~Truthy(response.args.organizationId)
  => /\ response.error # "none"
     /\ \A k \in 1..Len(response.calls) : response.calls[k] # "create"
     /\ bookings = response.before

\* C9: once deleteBooking(id) has succeeded the booking is gone for good (ids
\* are not handed out twice) and the other bookings are as they were; a
\* getBooking of an id that is not stored, deleted or never stored, returns
\* the no-result value and no error.
C9_DeleteState ==
  /\ response.op = "deleteBooking" /\ response.error = "none" =>
       /\ response.id \in DOMAIN response.before
       /\ response.id \notin DOMAIN bookings
       /\ dbFindFirst(bookings, response.id) = {}
       /\ OthersUnchanged(response.id)
  /\ response.op = "getBooking" /\ response.id \notin DOMAIN bookings =>
       response.result = {} /\ response.error = "none"

C9_StaysDeleted ==
  \A id \in IdInputs \ {NoId} :
    id < clock /\ id \notin DOMAIN bookings => id \notin DOMAIN bookings'

C9_DeletedThenAbsent == []C9_DeleteState /\ [][C9_StaysDeleted]_vars

\* a getBooking of an id that was stored and has been deleted, another
\* booking still being stored
C9_Witness ==
  /\ response.op = "getBooking"
  /\ response.id < clock /\ response.id \notin DOMAIN bookings
  /\ response.result = {}
  /\ DOMAIN bookings # {}

Listed == response.op = "getBookings"

HasWindow ==
  Listed /\ response.args.bookingFrom # NoDate /\ response.args.bookingTo # NoDate

Overlaps(row, d1, d2) == row.from <= d2 /\ row.to >= d1

\* what the filters other than the dates ask of a booking
PassesFilters(a, id, row) ==
  /\ row.organizationId = a.organizationId
  /\ Len(Trim(a.search)) > 0 => ContainsInsensitive(row.name, Trim(a.search))
  /\ Truthy(a.custodianUserId) => row.custodianUserId = a.custodianUserId
  /\ Truthy(a.custodianTeamMemberId) =>
       row.custodianTeamMemberId = a.custodianTeamMemberId
  /\ a.statuses # {} => row.status \in a.statuses
  /\ a.assetIds # {} => \E x \in a.assetIds : x \in row.assets
  /\ a.excludeBookingIds # {} => id \notin a.excludeBookingIds

\* C4 as claimed: with both dates supplied, the date predicate matches a stored
\* booking, whatever its from and to, exactly when from <= D2 and to >= D1, and
\* the listing counts exactly the bookings that pass the other filters and
\* overlap the window.
C4_TwoClausesAreOverlap ==
  HasWindow =>
    LET d1 == response.args.bookingFrom
        d2 == response.args.bookingTo
    IN  /\ \A id \in DOMAIN bookings :
             OrMatches(response.where.OR[1], bookings[id])
               <=> Overlaps(bookings[id], d1, d2)
        /\ response.bookingCount =
             Cardinality({id \in DOMAIN bookings :
                            /\ PassesFilters(response.args, id, bookings[id])
                            /\ Overlaps(bookings[id], d1, d2)})

\* C4 as amended: the same, for the stored bookings with from <= to.
C4_TwoClausesAreOverlapWhenOrdered ==
  HasWindow =>
    LET d1 == response.args.bookingFrom
        d2 == response.args.bookingTo
        ordered == {id \in DOMAIN bookings : bookings[id].from <= bookings[id].to}
    IN  /\ \A id \in ordered :
             OrMatches(response.where.OR[1], bookings[id])
               <=> Overlaps(bookings[id], d1, d2)
        /\ ordered = DOMAIN bookings =>
             response.bookingCount =
               Cardinality({id \in DOMAIN bookings :
                              /\ PassesFilters(response.args, id, bookings[id])
                              /\ Overlaps(bookings[id], d1, d2)})

\* a window that one stored booking straddles and that another, with
\* from <= to as well, lies entirely after
C4_Witness ==
  /\ HasWindow
  /\ response.args.bookingFrom < response.args.bookingTo
  /\ \E i \in DOMAIN bookings, j \in DOMAIN bookings :
       /\ bookings[i].from <= bookings[i].to /\ bookings[j].from <= bookings[j].to
       /\ bookings[i].from < response.args.bookingFrom
       /\ bookings[i].to > response.args.bookingFrom
       /\ bookings[j].to < response.args.bookingFrom
  /\ response.bookingCount = 1

\* C7: every booking getBookings returns belongs to the organization asked for
\* and satisfies every active filter at once, the date clauses included.
C7_ReturnedPassAllFilters ==
  Listed =>
    \A k \in 1..Len(response.bookings) :
      LET id == response.bookings[k]
          row == bookings[id]
          a == response.args
      IN  /\ id \in DOMAIN bookings
          /\ row.organizationId = a.organizationId
          /\ PassesFilters(a, id, row)
          /\ a.bookingFrom # NoDate /\ a.bookingTo # NoDate =>
               \/ row.from <= a.bookingTo /\ row.to >= a.bookingFrom
               \/ row.from >= a.bookingFrom /\ row.to <= a.bookingTo

\* search, statuses, user custodian, assets, exclusion and window all active:
\* one booking is returned and the other stored one is not
C7_Witness ==
  /\ HasWindow
  /\ Len(Trim(response.args.search)) > 0
  /\ response.args.statuses # {} /\ response.args.assetIds # {}
  /\ response.args.excludeBookingIds # {}
  /\ Truthy(response.args.custodianUserId)
  /\ Len(response.bookings) = 1
  /\ Cardinality(DOMAIN bookings) = 2

C10_OffsetIsPagesTimesTake ==
  Listed /\ response.page >= 1 =>
    response.skip = (response.page - 1) * response.take

====
